---- MODULE Spec2Model ----
\* The wallet-link client of btcgui: the reconnect loop of
\* StartMainApplication, ListenAndUpdate with its reader goroutine and
\* dispatch loop, the JSON id generator, the replyHandlers map, the
\* command functions and the UI goroutines that trigger them.
EXTENDS Integers, Sequences, FiniteSets, TLC

\* ------------------------------------------------------------------ bounds
MaxConns == 2        \* connection attempts made by the reconnect loop
MaxFrames == 2       \* frames the reader goroutine receives, all connections
MaxClicks == 2       \* UI actions that send on a trigger channel
MaxCmds == 2         \* command goroutines that get to run
MaxField == 2        \* the largest major, minor or patch number of a version

\* ------------------------------------------------------- program constants
\* walletReqFuncs and btcdReqFuncs: the requests issued on every connection.
walletReqFuncs ==
    << "getaddressesbyaccount", "getbalances", "listaccounts",
       "walletislocked", "btcdconnected" >>
btcdReqFuncs == << "getblockcount" >>

\* The trigger channels and the command each one starts in the dispatch loop.
TriggerCmd ==
    [ newAddr |-> "getnewaddress", newWallet |-> "createencryptedwallet",
      lockWallet |-> "walletlock", unlockWallet |-> "walletpassphrase",
      sendTx |-> "sendmany", setTxFee |-> "settxfee" ]

\* The channel of triggerReplies a UI goroutine reads after its trigger
\* ("none": the goroutine only sends the trigger).
TriggerReply ==
    [ newAddr |-> "none", newWallet |-> "walletCreationErr",
      lockWallet |-> "none", unlockWallet |-> "unlockSuccessful",
      sendTx |-> "sendTx", setTxFee |-> "setTxFeeErr" ]

\* Commands that take no id and register no handler.
NoHandler == { "getbalances", "walletlock" }

Range(s) == { s[i] : i \in DOMAIN s }

VARIABLES
    jsonid,         \* n of JSONIDGenerator: the next id it sends
    replyHandlers,  \* replyHandlers.m: id -> command slot whose closure it holds
    spawned,        \* goroutines created by "go cmd(ws)" that have not run yet
    cmds,           \* command goroutines that have run, in starting order
    pend,           \* goroutines blocked in a channel send (ch <- v)
    conn,           \* number of ListenAndUpdate invocations so far
    lau,            \* position of the running ListenAndUpdate
    main,           \* position of the reconnect loop of StartMainApplication
    replies,        \* the buffered channel replies of the current connection
    reader,         \* the reader goroutine: "none", "open", "closed"
    nframes,        \* frames received so far
    ui,             \* UI goroutines that send on a trigger channel
    dialogs,        \* history: dialogs the program has asked GTK to create
    preGUIErrors,   \* history: errors handed to IdlePreGUIError
    ignored,        \* history: notifications taken for a non-default account
    calls,          \* history: callbacks invoked, with the frame that did it
    dropped,        \* history: numeric-id frames that found no handler
    reports,        \* history: what the reconnect loop received from replies
    connPushes,     \* history: values received from btcwalletConnected
    mu,             \* replyHandlers' mutex: who holds it between two steps
    updaters,       \* times the goroutines of updateFuncs were started
    sens,           \* the widgets that are sensitive
    appVer,         \* the version of the running application
    prevRun,        \* what the version file of the data directory holds
    lastNtfn,       \* history: per update channel, the frame of the
                    \* notification whose value its updater received last
    log,            \* history: log lines printed, by kind
    crashed         \* a goroutine panicked: the process is gone

linkVars == << conn, lau, main, reports, connPushes, updaters >>
wireVars == << replies, reader, nframes >>
corrVars == << jsonid, replyHandlers, mu >>
goVars == << spawned, cmds, pend >>
guiVars == << ui, dialogs, preGUIErrors, sens >>
bootVars == << appVer, prevRun >>
histVars == << calls, dropped, ignored, log, crashed >>

vars ==
    << linkVars, wireVars, corrVars, goVars, guiVars, bootVars, histVars,
       lastNtfn >>

\* ------------------------------------------------------------ wire values
\* "error" of a reply: 0 is a null error; -13 is "wallet must be unlocked".
ErrCodes == { 0, -13, -1 }
\* Method names of notifications; "other" is one the switch does not know.
Methods ==
    { "btcwallet:btcdconnected", "btcwallet:newblockchainheight",
      "btcwallet:accountbalance", "btcwallet:accountbalanceunconfirmed",
      "btcwallet:newwalletlockstate", "other" }
\* Shapes of a notification's "result": the map shapes are an account
\* notification for the default account "", for another account, and a map
\* without the "account"/"notification" members.
Payloads == { "bool", "number", "mapdefault", "mapother", "mapbad" }

LogKinds == { "unmarshal", "invalidid", "unhandled", "recverr", "nodialog" }

NoPush == [ ch |-> "none", val |-> "", then |-> "" ]
Push(ch, val) == [ ch |-> ch, val |-> val, then |-> "" ]
Panic == [ ch |-> "panic", val |-> "", then |-> "" ]

ErrVal(e) == IF e = -13 THEN "rpc-13" ELSE "rpcerr"

\* The addresses a getnewaddress reply can carry, and the decoded results
\* that are Go strings.
Addresses == { "addr1", "addr2" }
Strings == Addresses \cup { "string" }

\* uint64(id.(float64)): an id is kept in halves (id2 = 2 * id), so that 3
\* is the id 1.5; the conversion truncates. The conversion of a negative
\* number (id2 = -1) is implementation-dependent: it saturates to 0 or
\* wraps to a number near 2^64, which NoId stands for.
NoId == -1
Uint64Of(id2) == IF id2 < 0 THEN { 0, NoId } ELSE { id2 \div 2 }

\* What asking GTK for a dialog can come to: the dialog is made (and
\* shown: the create functions end in ShowAll), or gtk returns an error and
\* a nil dialog; "nilpanic" is that error where the caller goes on to call
\* a method of the nil dialog and the process dies of it.
GtkOutcomes == { "shown", "failed", "nilpanic" }

\* A dialog the program asked for: who is "cb" for a callback (src is the
\* command's slot) and "ui" for a UI goroutine (src is its number).
Dialog(kind, who, src, made) ==
    [ kind |-> kind, who |-> who, src |-> src, shown |-> (made = "shown") ]

\* A callback that looks for the default account only in a null result.
DefaultAccountMissingNull(res) == res = "null"

\* The listaccounts callback: "result == nil", or a map without the ""
\* account.
DefaultAccountMissing(res) == res \in { "null", "mapother" }

\* What the closure registered by each command does with (result, err):
\* the channel send it ends in, if any.
Callback(kind, res, err) ==
    CASE kind = "getnewaddress" ->
            IF err # 0 THEN Push("newAddr", ErrVal(err))
            ELSE IF res \in Strings THEN Push("newAddr", res) ELSE NoPush
      [] kind = "createencryptedwallet" ->
            IF err # 0 THEN Push("walletCreationErr", ErrVal(err))
            ELSE [ ch |-> "walletCreationErr", val |-> "nil", then |-> "respawn" ]
      [] kind = "getblockcount" ->
            IF err # 0 THEN Push("bcHeight", "0")
            ELSE IF res = "number" THEN Push("bcHeight", "height")
            ELSE Push("bcHeight", "0")
      [] kind = "getaddressesbyaccount" ->
            IF res = "list" THEN Push("addrs", "addrs") ELSE Push("addrs", "empty")
      [] kind = "listaccounts" ->
            IF err = 0 /\ DefaultAccountMissing(res)
            THEN [ ch |-> "dialog", val |-> "newwallet", then |-> "run" ]
            ELSE NoPush
      [] kind = "walletislocked" ->
            IF res = "bool" THEN Push("lockState", "bool") ELSE NoPush
      [] kind = "btcdconnected" ->
            IF res = "bool" THEN Push("btcdConnected", "bool") ELSE NoPush
      [] kind = "walletpassphrase" ->
            Push("unlockSuccessful", IF err = 0 THEN "true" ELSE "false")
      [] kind = "sendmany" ->
            IF err # 0 THEN Push("sendTx", ErrVal(err)) ELSE Push("sendTx", "nil")
      [] kind = "settxfee" ->
            IF err # 0 THEN Push("setTxFeeErr", ErrVal(err))
            ELSE Push("setTxFeeErr", "nil")
      [] OTHER -> NoPush

\* Commands that leave their registration behind when the write fails.
WriteFailDeletesNone(kind) == FALSE

\* What each command does when websocket.Message.Send fails: whether it
\* deletes its registration, and the channel send that reports the failure.
WriteFailDeletes(kind) ==
    kind \in { "getnewaddress", "createencryptedwallet", "getblockcount",
               "getaddressesbyaccount", "listaccounts", "walletislocked",
               "btcdconnected" }

WriteFailPush(kind) ==
    CASE kind = "getnewaddress" -> Push("newAddr", "writeerr")
      [] kind = "createencryptedwallet" -> Push("walletCreationErr", "writeerr")
      [] kind = "getblockcount" -> Push("bcHeight", "0")
      [] kind = "getaddressesbyaccount" -> Push("addrs", "empty")
      [] kind = "getbalances" ->
            [ ch |-> "balance", val |-> "0", then |-> "unconfirmed" ]
      [] OTHER -> NoPush

\* A handler that takes the notifications of every account.
ForDefaultAccountAny(p) == p \in { "mapdefault", "mapother" }

\* "account == """: the notification is for the default account.
ForDefaultAccount(p) == p = "mapdefault"

\* The notifications that carry an account.
AccountNtfns ==
    { "btcwallet:accountbalance", "btcwallet:accountbalanceunconfirmed",
      "btcwallet:newwalletlockstate" }

\* Notification m with result p is for an account other than the default.
OtherAccount(m, p) == m \in AccountNtfns /\ p = "mapother"

\* A default case that panics instead of logging.
UnhandledNtfnPanics == Panic

\* "default: log.Printf("Unhandled message with id '%s'\n", id)".
UnhandledNtfn == [ ch |-> "log", val |-> "unhandled", then |-> "" ]

\* handleBtcwalletNtfn(id, result).
NtfnEffect(m, p) ==
    CASE m = "btcwallet:btcdconnected" ->
            IF p = "bool" THEN Push("btcdConnected", "bool") ELSE NoPush
      [] m = "btcwallet:newblockchainheight" ->
            IF p = "number" THEN Push("bcHeight", "height") ELSE NoPush
      [] m = "btcwallet:accountbalance" ->
            IF ForDefaultAccount(p) THEN Push("balance", "amount") ELSE NoPush
      [] m = "btcwallet:accountbalanceunconfirmed" ->
            IF ForDefaultAccount(p) THEN Push("unconfirmed", "amount") ELSE NoPush
      [] m = "btcwallet:newwalletlockstate" ->
            IF p = "mapbad" THEN Panic
            ELSE IF p \notin { "mapdefault", "mapother" } THEN NoPush
            ELSE IF ForDefaultAccount(p) THEN Push("lockState", "bool")
            ELSE NoPush
      [] OTHER -> UnhandledNtfn

UpdateChans ==
    { "btcdConnected", "balance", "unconfirmed", "bcHeight", "addrs", "lockState" }

\* ---------------------------------------------------------------- widgets
\* The menu items and buttons that start a wallet request: New Wallet,
\* Encrypt Wallet, Lock, Unlock and Set Transaction Fee of the settings
\* menu, the Send button and the New Address button.
Widgets == { "New", "Encrypt", "Lock", "Unlock", "TxFee", "Send", "NewAddr" }

\* The widgets are created insensitive, but for "Set Transaction Fee...",
\* whose SetSensitive(false) is commented out.
InitiallySensitive == { "TxFee" }

\* updateConnectionState, "case conn := <-updateChans.btcwalletConnected".
WalletConnSens(v, w) ==
    IF v THEN w \cup { "New", "Encrypt", "NewAddr" }
    ELSE w \ { "New", "Encrypt", "Lock", "Unlock", "Send", "NewAddr" }

\* updateConnectionState, "case conn := <-updateChans.btcdConnected".
BtcdConnSens(v, w) == IF v THEN w \cup { "Send" } ELSE w \ { "Send" }

\* updateLockState: a locked wallet can be unlocked, an unlocked one locked.
LockSens(locked, w) ==
    IF locked THEN (w \ { "Lock" }) \cup { "Unlock" }
    ELSE (w \ { "Unlock" }) \cup { "Lock" }

\* What the updater goroutine of channel ch does to the widgets with the
\* boolean it received; the other updaters set labels and lists only.
UpdaterSens(ch, v, w) ==
    CASE ch = "btcdConnected" -> BtcdConnSens(v, w)
      [] ch = "lockState" -> LockSens(v, w)
      [] OTHER -> w

\* ------------------------------------------------------------ versions
\* appMajor, appMinor, appPatch of this build.
version == [ major |-> 0, minor |-> 2, patch |-> 0 ]

\* SaveToDataDir: the version file after a run of version v, "%d.%d.%d"
\* and what follows it, then a newline.
Saved(v) == [ st |-> "line", nums |-> << v.major, v.minor, v.patch >> ]

Versions ==
    [ major : 0 .. MaxField, minor : 0 .. MaxField, patch : 0 .. MaxField ]

\* What GetPreviousAppVersion can find: no file, a file it cannot open, a
\* file without a newline, or a first line, of which nums are the numbers
\* that "%d.%d.%d" matches before the text stops matching.
VersionFiles ==
    { [ st |-> x, nums |-> << >> ] : x \in { "absent", "unopenable", "nonewline" } }
        \cup { [ st |-> "line", nums |-> q ] :
                 q \in UNION { [ 1 .. k -> 0 .. MaxField ] : k \in 0 .. 3 } }

\* ParseVersion: fmt.Sscanf stores what matched and leaves the rest zero.
ParseVersion(nums) ==
    [ major |-> IF Len(nums) >= 1 THEN nums[1] ELSE 0,
      minor |-> IF Len(nums) >= 2 THEN nums[2] ELSE 0,
      patch |-> IF Len(nums) >= 3 THEN nums[3] ELSE 0 ]

\* A comparison that forgets "case v.minor < v2.minor: return false".
NewerThanNoMinorLess(v, v2) ==
    CASE v.major > v2.major -> TRUE
      [] v.major < v2.major -> FALSE
      [] v.minor > v2.minor -> TRUE
      [] v.patch > v2.patch -> TRUE
      [] OTHER -> FALSE

\* appVersion.NewerThan: the first case of the switch that holds decides.
NewerThan(v, v2) ==
    CASE v.major > v2.major -> TRUE
      [] v.major < v2.major -> FALSE
      [] v.minor > v2.minor -> TRUE
      [] v.minor < v2.minor -> FALSE
      [] v.patch > v2.patch -> TRUE
      [] OTHER -> FALSE

\* ------------------------------------------------------------------ state
\* The state in which StartMainApplication starts: the maps and channels of
\* the package are made and empty, no goroutine of the link runs yet.
Init ==
    /\ jsonid = 0
    /\ replyHandlers = << >>
    /\ spawned = {}
    /\ cmds = << >>
    /\ pend = {}
    /\ conn = 0
    /\ lau = "none"
    /\ main = "start"
    /\ replies = << >>
    /\ reader = "none"
    /\ nframes = 0
    /\ ui = << >>
    /\ dialogs = {}
    /\ preGUIErrors = 0
    /\ ignored = 0
    /\ calls = {}
    /\ dropped = {}
    /\ reports = << >>
    /\ connPushes = << >>
    /\ mu = "free"
    /\ updaters = 0
    /\ sens = InitiallySensitive
    /\ appVer = version
    /\ prevRun = Saved(version)
    /\ log = [ k \in LogKinds |-> 0 ]
    /\ lastNtfn = [ ch \in UpdateChans |-> 0 ]
    /\ crashed = FALSE

Logged(kind) == [ log EXCEPT ![kind] = @ + 1 ]

\* A loop over the request functions that stops after the first.
SpawnFirst(fs, c, by) == { [ kind |-> fs[1], conn |-> c, by |-> by ] }

\* The goroutines "for _, f := range fs { go f(ws) }" creates: by is 0 for
\* ListenAndUpdate, the UI goroutine for a trigger, minus the slot for the
\* callback of createencryptedwallet.
Spawn(fs, c, by) == { [ kind |-> k, conn |-> c, by |-> by ] : k \in Range(fs) }

\* A goroutine blocked in "ch <- val": who is "cmd" for a command function,
\* "cb" for a callback (src is the command's slot) and "ntfn" for
\* handleBtcwalletNtfn (src is the number of its frame).
Blocked(e, who, src) ==
    IF e.ch \in { "none", "panic", "log", "dialog" } THEN {}
    ELSE { [ ch |-> e.ch, val |-> e.val, then |-> e.then, who |-> who, src |-> src ] }

\* ---------------------------------------------------------------- main
\* The state in which main() has read its configuration: any version of
\* the application, over any version file.
InitBoot ==
    /\ jsonid = 0 /\ replyHandlers = << >> /\ mu = "free"
    /\ spawned = {} /\ cmds = << >> /\ pend = {}
    /\ conn = 0 /\ lau = "none" /\ reports = << >> /\ connPushes = << >>
    /\ updaters = 0
    /\ replies = << >> /\ reader = "none" /\ nframes = 0
    /\ ui = << >> /\ dialogs = {} /\ preGUIErrors = 0
    /\ sens = InitiallySensitive
    /\ calls = {} /\ dropped = {} /\ ignored = 0
    /\ log = [ k \in LogKinds |-> 0 ] /\ crashed = FALSE
    /\ lastNtfn = [ ch \in UpdateChans |-> 0 ]
    /\ main = "boot"
    /\ appVer \in Versions
    /\ prevRun \in VersionFiles

\* "prevRunVers, err := GetPreviousAppVersion(cfg)": err is not nil.
Unreadable(file) == file.st # "line"

\* main(): "if err != nil || version.NewerThan(*prevRunVers)" the tutorial
\* dialog is created and run, else StartMainApplication is started. If gtk
\* cannot make the dialog, the error is reported and the process ends.
MainBoot ==
    /\ ~crashed
    /\ main = "boot"
    /\ \E made \in { "shown", "failed" } :
          IF Unreadable(prevRun) \/ NewerThan(appVer, ParseVersion(prevRun.nums))
          THEN /\ dialogs' = dialogs \cup { Dialog("tutorial", "main", 0, made) }
               /\ main' = IF made = "shown" THEN "tutorial" ELSE "fatal"
               /\ preGUIErrors' =
                     IF made = "shown" THEN preGUIErrors ELSE preGUIErrors + 1
          ELSE /\ main' = "start"
               /\ UNCHANGED << dialogs, preGUIErrors >>
    /\ UNCHANGED << conn, lau, reports, connPushes, updaters, wireVars, corrVars,
                    goVars, ui, sens, bootVars, lastNtfn, histVars >>

\* The tutorial dialog is closed: its "destroy" handler starts
\* StartMainApplication.
TutorialClosed ==
    /\ ~crashed
    /\ main = "tutorial"
    /\ main' = "start"
    /\ UNCHANGED << conn, lau, reports, connPushes, updaters, wireVars, corrVars,
                    goVars, guiVars, bootVars, lastNtfn, histVars >>

\* ------------------------------------------------------- reconnect loop
\* ioutil.ReadFile(cfg.CAFile) succeeds: the window is created, the version
\* saved, JSONIDGenerator started, and the loop is entered.
MainReadCA ==
    /\ ~crashed
    /\ main = "start"
    /\ main' = "spawn"
    /\ UNCHANGED << conn, lau, reports, connPushes, wireVars, corrVars, goVars,
                    guiVars, histVars, bootVars, lastNtfn, updaters >>

\* A start that reports the unreadable CA file and goes on to connect.
MainCAFailGoesOn ==
    /\ ~crashed
    /\ main = "start"
    /\ preGUIErrors' = preGUIErrors + 1
    /\ main' = "spawn"
    /\ UNCHANGED << conn, lau, reports, connPushes, wireVars, corrVars, goVars,
                    ui, dialogs, histVars, bootVars, lastNtfn, updaters, sens >>

\* ioutil.ReadFile(cfg.CAFile) fails: IdlePreGUIError queues the error
\* dialog and blocks this goroutine in "select {}" for good.
MainCAFail ==
    /\ ~crashed
    /\ main = "start"
    /\ preGUIErrors' = preGUIErrors + 1
    /\ main' = "fatal"
    /\ UNCHANGED << conn, lau, reports, connPushes, wireVars, corrVars, goVars,
                    ui, dialogs, histVars, bootVars, lastNtfn, updaters, sens >>

\* StartMainApplication: "go func() { ListenAndUpdate(replies); close(done) }()"
MainSpawn ==
    /\ ~crashed
    /\ main = "spawn" /\ conn < MaxConns
    /\ conn' = conn + 1
    /\ lau' = "dial"
    /\ main' = "select"
    /\ UNCHANGED << reports, connPushes, wireVars, corrVars, goVars, guiVars,
                    histVars, bootVars, lastNtfn, updaters >>

\* A loop whose "break" leaves the select and not the loop around it.
MainDoneBreaksSelect ==
    /\ ~crashed
    /\ main = "select" /\ lau = "done"
    /\ UNCHANGED vars

\* A loop that sleeps after a failure without telling the UI.
AfterReportSleeps(r) == IF r = "nil" THEN "pushTrue" ELSE "sleep"

\* A loop that reports a connection whatever it received.
AfterReportConnected(r) == "pushTrue"

\* "switch err": what the loop does with what it received from replies.
AfterReport(r) == IF r = "nil" THEN "pushTrue" ELSE "pushFalse"

\* "case err := <-replies": the rendezvous with ListenAndUpdate's "c <- ...".
\* ListenAndUpdate returns after reporting refused or lost, goes on after nil.
MainRecv ==
    /\ ~crashed
    /\ main = "select"
    /\ lau \in { "nil", "refused", "lost" }
    /\ reports' = Append(reports, [ r |-> lau, conn |-> conn ])
    /\ main' = AfterReport(lau)
    /\ lau' = IF lau = "nil" THEN "spawn" ELSE "returned"
    /\ UNCHANGED << conn, connPushes, wireVars, corrVars, goVars, guiVars,
                    histVars, bootVars, lastNtfn, updaters >>

\* A loop that starts another ListenAndUpdate once it has told the UI of a
\* connection, with no wait for done.
MainPushRespawns ==
    /\ ~crashed
    /\ main \in { "pushTrue", "pushFalse" }
    /\ connPushes' = Append(connPushes, [ v |-> main = "pushTrue", conn |-> conn ])
    /\ sens' = WalletConnSens(main = "pushTrue", sens)
    /\ main' = IF main = "pushTrue" THEN "spawn" ELSE "sleep"
    /\ UNCHANGED << conn, lau, reports, wireVars, corrVars, goVars, ui, dialogs,
                    preGUIErrors, histVars, bootVars, lastNtfn, updaters >>

\* "updateChans.btcwalletConnected <- v", received by updateConnectionState,
\* which sets the widgets; after false the loop sleeps, after true it
\* selects again.
MainPush ==
    /\ ~crashed
    /\ main \in { "pushTrue", "pushFalse" }
    /\ connPushes' = Append(connPushes, [ v |-> main = "pushTrue", conn |-> conn ])
    /\ sens' = WalletConnSens(main = "pushTrue", sens)
    /\ main' = IF main = "pushTrue" THEN "select" ELSE "sleep"
    /\ UNCHANGED << conn, lau, reports, wireVars, corrVars, goVars, ui, dialogs,
                    preGUIErrors, histVars, bootVars, lastNtfn, updaters >>

\* time.Sleep(5 * time.Second) is over.
MainSleep ==
    /\ ~crashed
    /\ main = "sleep"
    /\ main' = "select"
    /\ UNCHANGED << conn, lau, reports, connPushes, wireVars, corrVars, goVars,
                    guiVars, histVars, bootVars, lastNtfn, updaters >>

\* "case <-done: break selectLoop".
MainDone ==
    /\ ~crashed
    /\ main = "select" /\ lau = "done"
    /\ main' = "spawn"
    /\ lau' = "none"
    /\ UNCHANGED << conn, reports, connPushes, wireVars, corrVars, goVars,
                    guiVars, histVars, bootVars, lastNtfn, updaters >>

\* ------------------------------------------------------ ListenAndUpdate
\* An "updateOnce.Do" that runs its function every time.
OnceEveryTime(n) == n + 1

\* "updateOnce.Do(func() { for _, f := range updateFuncs { go f() } })",
\* the first statement of ListenAndUpdate: n is the number of times the
\* updater goroutines were started before.
Once(n) == IF n = 0 THEN 1 ELSE n

\* websocket.Dial succeeds: "c <- nil" is next.
LauDialOk ==
    /\ ~crashed
    /\ lau = "dial"
    /\ updaters' = Once(updaters)
    /\ lau' = "nil"
    /\ UNCHANGED << conn, main, reports, connPushes, wireVars, corrVars,
                    goVars, guiVars, histVars, bootVars, lastNtfn >>

\* websocket.Dial fails: "c <- ErrConnectionRefused" is next.
LauDialRefused ==
    /\ ~crashed
    /\ lau = "dial"
    /\ updaters' = Once(updaters)
    /\ lau' = "refused"
    /\ UNCHANGED << conn, main, reports, connPushes, wireVars, corrVars,
                    goVars, guiVars, histVars, bootVars, lastNtfn >>

\* After "c <- nil": make the replies channel, start the reader goroutine
\* and one goroutine per request function.
LauSpawn ==
    /\ ~crashed
    /\ lau = "spawn"
    /\ replies' = << >>
    /\ reader' = "open"
    /\ spawned' = spawned \cup Spawn(walletReqFuncs, conn, 0)
                          \cup Spawn(btcdReqFuncs, conn, 0)
    /\ lau' = "loop"
    /\ UNCHANGED << conn, main, reports, connPushes, nframes, corrVars, cmds,
                    pend, guiVars, histVars, bootVars, lastNtfn, updaters >>

\* ListenAndUpdate has returned: close(done).
LauDone ==
    /\ ~crashed
    /\ lau = "returned"
    /\ lau' = "done"
    /\ UNCHANGED << conn, main, reports, connPushes, wireVars, corrVars,
                    goVars, guiVars, histVars, bootVars, lastNtfn, updaters >>

\* A receive that sees the close before the frames still in the buffer.
LauLostDiscards ==
    /\ ~crashed
    /\ lau = "loop" /\ reader = "closed"
    /\ lau' = "lost"
    /\ UNCHANGED << conn, main, reports, connPushes, wireVars, corrVars,
                    goVars, guiVars, histVars, bootVars, lastNtfn, updaters >>

\* "case r, ok := <-replies" with !ok: the channel is closed and drained;
\* "c <- ErrConnectionLost" is next.
LauLost ==
    /\ ~crashed
    /\ lau = "loop" /\ replies = << >> /\ reader = "closed"
    /\ lau' = "lost"
    /\ UNCHANGED << conn, main, reports, connPushes, wireVars, corrVars,
                    goVars, guiVars, histVars, bootVars, lastNtfn, updaters >>

\* ----------------------------------------------------- reader goroutine
\* The shapes of result each callback looks for ("result.(string)", ...).
Expected(kind) ==
    CASE kind = "getnewaddress" -> Addresses
      [] kind = "getblockcount" -> { "number" }
      [] kind = "getaddressesbyaccount" -> { "list" }
      [] kind = "listaccounts" -> { "mapdefault", "mapother" }
      [] kind \in { "walletislocked", "btcdconnected" } -> { "bool" }
      [] OTHER -> { "null" }

\* The error codes the daemon answers a command with: -12 is "keypool
\* ran out", which only getnewaddress can meet.
ErrorsOf(kind) ==
    (ErrCodes \ { 0 }) \cup (IF kind = "getnewaddress" THEN { -12 } ELSE {})

\* (result, error) of the daemon's reply to a command: the result the
\* callback expects, a null result, or an error with a null result.
ReplyBodies(kind) ==
    { [ res |-> r, err |-> 0 ] : r \in Expected(kind) \cup { "null" } }
        \cup { [ res |-> "null", err |-> e ] : e \in ErrorsOf(kind) }

\* (result, error) of a frame the daemon sends unasked.
ForgedBodies == { [ res |-> "string", err |-> 0 ], [ res |-> "null", err |-> -1 ] }

Frame(t, id2, m, res, err) ==
    [ k |-> nframes + 1, t |-> t, id2 |-> id2, m |-> m, res |-> res, err |-> err ]

\* "replies <- msg" after websocket.Message.Receive returned a frame.
Received(f) ==
    /\ reader = "open" /\ nframes < MaxFrames
    /\ replies' = Append(replies, f)
    /\ nframes' = nframes + 1
    /\ reader' = reader

\* The daemon answers a request it was sent on this connection, once.
ReaderReply ==
    /\ ~crashed
    /\ \E i \in DOMAIN cmds :
        \E b \in ReplyBodies(cmds[i].kind) :
          /\ cmds[i].sent /\ cmds[i].rk = 0
          /\ cmds[i].conn = conn /\ cmds[i].n >= 0
          /\ Received(Frame("num", 2 * cmds[i].n, "", b.res, b.err))
          /\ cmds' = [ cmds EXCEPT ![i].rk = nframes + 1 ]
    /\ UNCHANGED << linkVars, corrVars, spawned, pend, guiVars, histVars,
                    bootVars, lastNtfn >>

\* Any other frame with a numeric id: a duplicate, an id never issued, a
\* fraction, a negative number.
ReaderForged ==
    /\ ~crashed
    /\ \E id2 \in -1 .. (2 * jsonid + 1), b \in ForgedBodies :
          Received(Frame("num", id2, "", b.res, b.err))
    /\ UNCHANGED << linkVars, corrVars, goVars, guiVars, histVars, bootVars, lastNtfn >>

\* A notification: the id is a string, the method name.
ReaderNtfn ==
    /\ ~crashed
    /\ \E m \in Methods, p \in Payloads : Received(Frame("str", 0, m, p, 0))
    /\ UNCHANGED << linkVars, corrVars, goVars, guiVars, histVars, bootVars, lastNtfn >>

\* A frame that is not JSON ("bad"), or whose id is null or missing ("null").
ReaderJunk ==
    /\ ~crashed
    /\ \E t \in { "bad", "null" } : Received(Frame(t, 0, "", "null", 0))
    /\ UNCHANGED << linkVars, corrVars, goVars, guiVars, histVars, bootVars, lastNtfn >>

\* websocket.Message.Receive fails: log, close(replies), return.
ReaderError ==
    /\ ~crashed
    /\ reader = "open"
    /\ reader' = "closed"
    /\ log' = Logged("recverr")
    /\ UNCHANGED << linkVars, replies, nframes, corrVars, goVars, guiVars,
                    calls, dropped, ignored, crashed, bootVars, lastNtfn >>

\* -------------------------------------------------------- dispatch loop
\* A lookup by sending order: the oldest registration, whatever the id.
HandlerForOldest(u) ==
    IF DOMAIN replyHandlers = {} THEN 0
    ELSE replyHandlers[CHOOSE x \in DOMAIN replyHandlers :
                            \A y \in DOMAIN replyHandlers : x <= y]

\* "f := replyHandlers.m[uintID]": the slot of the closure, 0 for nil.
HandlerFor(u) == IF u \in DOMAIN replyHandlers THEN replyHandlers[u] ELSE 0

\* A dispatch that also forgets the registrations made before this one.
DeletedUpTo(u) ==
    [ x \in { y \in DOMAIN replyHandlers : y > u } |-> replyHandlers[x] ]

\* A dispatch that leaves the registration in the map.
DeletedNot(u) == replyHandlers

\* A dispatch that resets the map.
DeletedAll(u) == << >>

\* "delete(replyHandlers.m, uintID)".
Deleted(u) == [ x \in DOMAIN replyHandlers \ { u } |-> replyHandlers[x] ]

\* A dispatch that hands the callback the result and a nil error.
ArgsResultOnly(f) == [ res |-> f.res, err |-> 0 ]

\* "go f(rply.Result, rply.Error)": what the callback is called with.
Args(f) == [ res |-> f.res, err |-> f.err ]

\* A dispatch that calls the handler before it unlocks: the lock is held
\* for as long as the handler runs.
HeldDuringCallback(slot) == IF slot = 0 THEN "free" ELSE "dispatch"

\* "replyHandlers.Unlock()" comes before "if f != nil { go f(...) }": who
\* holds the lock when the callback of slot starts.
HeldDuring(slot) == "free"

\* "case float64": look the handler up and delete it under the lock, then
\* "if f != nil { go f(rply.Result, rply.Error) }". Nothing is logged.
DispatchReply(f) ==
    \E u \in Uint64Of(f.id2), made \in GtkOutcomes :
        LET slot == HandlerFor(u)
            e == IF slot = 0 THEN NoPush
                 ELSE Callback(cmds[slot].kind, Args(f).res, Args(f).err)
        IN  /\ mu = "free"
            /\ mu' = HeldDuring(slot)
            /\ replyHandlers' = Deleted(u)
            /\ calls' = IF slot = 0 THEN calls
                        ELSE calls \cup { [ slot |-> slot, k |-> f.k, id2 |-> f.id2,
                                            res |-> Args(f).res,
                                            err |-> Args(f).err ] }
            /\ dropped' = IF slot = 0
                          THEN dropped \cup { [ k |-> f.k, id2 |-> f.id2 ] }
                          ELSE dropped
            /\ pend' = pend \cup Blocked(e, "cb", slot)
            /\ dialogs' = IF e.ch = "dialog"
                          THEN dialogs \cup { Dialog(e.val, "cb", slot, made) }
                          ELSE dialogs
            /\ crashed' = \/ e.ch = "panic"
                          \/ e.ch = "dialog" /\ e.then = "run" /\ made = "nilpanic"
            /\ UNCHANGED << log, ignored >>

\* "case string": "go handleBtcwalletNtfn(id.(string), rply.Result)".
DispatchNtfn(f) ==
    LET e == NtfnEffect(f.m, f.res)
    IN  /\ pend' = pend \cup Blocked(e, "ntfn", f.k)
        /\ crashed' = (e.ch = "panic")
        /\ log' = IF e.ch = "log" THEN Logged(e.val) ELSE log
        /\ ignored' = IF OtherAccount(f.m, f.res) THEN ignored + 1 ELSE ignored
        /\ UNCHANGED << replyHandlers, mu, calls, dropped, dialogs >>

\* A loop that dereferences rply.Id without the nil check.
DispatchJunkDeref(f) ==
    /\ log' = IF f.t = "bad" THEN Logged("unmarshal") ELSE log
    /\ crashed' = (f.t = "null")
    /\ UNCHANGED << replyHandlers, mu, calls, dropped, pend, dialogs, ignored >>

\* json.Unmarshal fails, or rply.Id == nil: log and continue.
DispatchJunk(f) ==
    /\ log' = Logged(IF f.t = "bad" THEN "unmarshal" ELSE "invalidid")
    /\ UNCHANGED << replyHandlers, mu, calls, dropped, pend, dialogs, ignored,
                    crashed >>

\* A loop that calls the handler itself and so waits for its channel send.
LauFrameInline ==
    /\ ~crashed
    /\ lau = "loop" /\ replies # << >> /\ pend = {}
    /\ replies' = Tail(replies)
    /\ LET f == Head(replies)
       IN  CASE f.t = "num" -> DispatchReply(f)
             [] f.t = "str" -> DispatchNtfn(f)
             [] OTHER -> DispatchJunk(f)
    /\ UNCHANGED << linkVars, reader, nframes, jsonid, spawned, cmds, ui,
                    preGUIErrors, sens, bootVars, lastNtfn >>

\* "case r, ok := <-replies" with a frame.
LauFrame ==
    /\ ~crashed
    /\ lau = "loop" /\ replies # << >>
    /\ replies' = Tail(replies)
    /\ LET f == Head(replies)
       IN  CASE f.t = "num" -> DispatchReply(f)
             [] f.t = "str" -> DispatchNtfn(f)
             [] OTHER -> DispatchJunk(f)
    /\ UNCHANGED << linkVars, reader, nframes, jsonid, spawned, cmds, ui,
                    preGUIErrors, sens, bootVars, lastNtfn >>

\* A loop that starts cmdGetBalances along with the command of a trigger.
LauTriggerBoth ==
    /\ ~crashed
    /\ lau = "loop"
    /\ \E a \in DOMAIN ui :
          /\ ui[a].pc = "trigger"
          /\ spawned' = spawned \cup
                { [ kind |-> k, conn |-> conn, by |-> a ] :
                    k \in { TriggerCmd[ui[a].trig], "getbalances" } }
          /\ ui' = [ ui EXCEPT ![a].pc =
                        IF TriggerReply[ui[a].trig] = "none" THEN "done" ELSE "wait" ]
    /\ UNCHANGED << dialogs, preGUIErrors, sens, linkVars, wireVars, corrVars,
                    cmds, pend, histVars, bootVars, lastNtfn >>

\* "case <-triggers.X: go cmdX(ws)": the rendezvous with a UI goroutine
\* blocked in "triggers.X <- v", which then reads its reply channel, if any.
LauTrigger ==
    /\ ~crashed
    /\ lau = "loop"
    /\ \E a \in DOMAIN ui :
          /\ ui[a].pc = "trigger"
          /\ spawned' = spawned \cup
                { [ kind |-> TriggerCmd[ui[a].trig], conn |-> conn, by |-> a ] }
          /\ ui' = [ ui EXCEPT ![a].pc =
                        IF TriggerReply[ui[a].trig] = "none" THEN "done" ELSE "wait" ]
    /\ UNCHANGED << dialogs, preGUIErrors, linkVars, wireVars, corrVars, cmds,
                    pend, histVars, bootVars, lastNtfn, sens >>

\* ---------------------------------------------------- command goroutines
\* A generator that forgets "n++".
NextIdStuck(n) == n

\* JSONIDGenerator: "c <- n; n++". The id after the one just handed out.
NextId(n) == n + 1

\* A command that writes its request before it registers anything.
FirstStepSend(plain) == "send"

\* What a command does once it has its id and its message: register its
\* handler, or, with no reply expected, write the request at once.
FirstStep(plain) == IF plain THEN "send" ELSE "register"

\* A goroutine created by "go cmdX(ws)" starts to run. A command that
\* registers a handler first takes its id: "n := <-NewJSONID", the
\* rendezvous with JSONIDGenerator.
CmdStart ==
    /\ ~crashed
    /\ Len(cmds) < MaxCmds
    /\ \E g \in spawned :
          LET plain == g.kind \in NoHandler
          IN  /\ spawned' = spawned \ { g }
              /\ cmds' = Append(cmds,
                    [ kind |-> g.kind, conn |-> g.conn, by |-> g.by,
                      n |-> IF plain THEN NoId ELSE jsonid,
                      pc |-> FirstStep(plain),
                      sent |-> FALSE, rk |-> 0 ])
              /\ jsonid' = IF plain THEN jsonid ELSE NextId(jsonid)
    /\ UNCHANGED << linkVars, wireVars, replyHandlers, pend, guiVars, histVars,
                    bootVars, lastNtfn, mu >>

\* "replyHandlers.Lock(); replyHandlers.m[n] = func...; replyHandlers.Unlock()".
Registered(i) ==
    [ x \in DOMAIN replyHandlers \cup { cmds[i].n } |->
        IF x = cmds[i].n THEN i ELSE replyHandlers[x] ]

CmdRegister ==
    /\ ~crashed
    /\ \E i \in DOMAIN cmds :
          /\ cmds[i].pc = "register"
          /\ mu = "free"
          /\ replyHandlers' = Registered(i)
          /\ cmds' = [ cmds EXCEPT ![i].pc = "send" ]
    /\ UNCHANGED << linkVars, wireVars, jsonid, spawned, pend, guiVars,
                    histVars, bootVars, lastNtfn, mu >>

\* websocket.Message.Send(ws, msg) succeeds: the request is on the wire.
CmdSendOk ==
    /\ ~crashed
    /\ \E i \in DOMAIN cmds :
          /\ cmds[i].pc = "send"
          /\ cmds' = [ cmds EXCEPT ![i].pc = "done", ![i].sent = TRUE ]
    /\ UNCHANGED << linkVars, wireVars, corrVars, spawned, pend, guiVars,
                    histVars, bootVars, lastNtfn >>

\* websocket.Message.Send(ws, msg) fails: what the command does about it.
CmdSendFail ==
    /\ ~crashed
    /\ \E i \in DOMAIN cmds :
          /\ cmds[i].pc = "send"
          /\ WriteFailDeletes(cmds[i].kind) => mu = "free"
          /\ cmds' = [ cmds EXCEPT ![i].pc = "failed" ]
          /\ replyHandlers' =
                IF WriteFailDeletes(cmds[i].kind) THEN Deleted(cmds[i].n)
                ELSE replyHandlers
          /\ pend' = pend \cup Blocked(WriteFailPush(cmds[i].kind), "cmd", i)
    /\ UNCHANGED << linkVars, wireVars, jsonid, spawned, guiVars, histVars,
                    bootVars, lastNtfn, mu >>

\* The commands with a branch for a request that cannot be built
\* (btcjson.CreateMessageWithId or json.Marshal returns an error), and the
\* channel send that branch ends in; the others drop the error.
BuildCanFail ==
    { "getnewaddress", "createencryptedwallet", "getblockcount",
      "getaddressesbyaccount", "listaccounts", "walletislocked",
      "btcdconnected", "walletlock", "sendmany", "settxfee" }

BuildFailPush(kind) ==
    CASE kind = "getnewaddress" -> Push("newAddr", "builderr")
      [] kind = "createencryptedwallet" -> Push("walletCreationErr", "builderr")
      [] kind = "getblockcount" -> Push("bcHeight", "0")
      [] kind = "getaddressesbyaccount" -> Push("addrs", "empty")
      [] kind = "settxfee" -> Push("setTxFeeErr", "builderr")
      [] OTHER -> NoPush

\* The request cannot be built: the command has its id, registers nothing,
\* writes nothing and returns after that send.
CmdBuildFail ==
    /\ ~crashed
    /\ \E i \in DOMAIN cmds :
          /\ cmds[i].pc = FirstStep(cmds[i].kind \in NoHandler)
          /\ cmds[i].kind \in BuildCanFail
          /\ cmds' = [ cmds EXCEPT ![i].pc = "nobuild" ]
          /\ pend' = pend \cup Blocked(BuildFailPush(cmds[i].kind), "cmd", i)
    /\ UNCHANGED << linkVars, wireVars, corrVars, spawned, guiVars, histVars,
                    bootVars, lastNtfn >>

\* -------------------------------------------------------- channel sends
\* An updater goroutine (updateBalance, updateProgress, ...) receives from
\* its channel of updateChans and sets its widgets; v is the boolean that
\* a value "bool" stands for. cmdGetBalances then sends its second zero.
PendUpdate ==
    /\ ~crashed
    /\ \E p \in pend, v \in BOOLEAN :
          /\ p.ch \in UpdateChans
          /\ sens' = UpdaterSens(p.ch, v, sens)
          /\ lastNtfn' = IF p.who = "ntfn" THEN [ lastNtfn EXCEPT ![p.ch] = p.src ]
                         ELSE lastNtfn
          /\ pend' = (pend \ { p }) \cup
                (IF p.then = "unconfirmed"
                 THEN { [ p EXCEPT !.ch = "unconfirmed", !.then = "" ] }
                 ELSE {})
    /\ UNCHANGED << linkVars, wireVars, corrVars, spawned, cmds, ui, dialogs,
                    preGUIErrors, histVars, bootVars >>

\* What a UI goroutine does with what it received on its reply channel:
\* its next position and the dialog it asks for, if any. After error -13
\* txSenderAndReplyListener asks for the unlock dialog and starts the
\* goroutine that waits for its outcome; after another error it shows an
\* error dialog. The goroutine of an unlock dialog that was given a channel
\* goes on to report there.
AfterReply(a, val, made) ==
    CASE ui[a].trig = "sendTx" /\ val = "rpc-13" ->
            [ pc |-> IF made = "shown" THEN "dialog" ELSE "nodialog",
              dlg |-> { Dialog("unlock", "ui", a, made) } ]
      [] ui[a].trig = "sendTx" /\ val = "rpcerr" ->
            [ pc |-> "done", dlg |-> { Dialog("error", "ui", a, "shown") } ]
      [] ui[a].trig = "unlockWallet" /\ ui[a].of # 0 ->
            [ pc |-> "report", dlg |-> {} ]
      [] OTHER -> [ pc |-> "done", dlg |-> {} ]

\* A UI goroutine blocked in "<-triggerReplies.X" receives what some
\* goroutine is sending on that channel. The createencryptedwallet callback
\* goes on to start the wallet request functions again.
PendReply ==
    /\ ~crashed
    /\ \E p \in pend, a \in DOMAIN ui, made \in { "shown", "failed" } :
          LET next == AfterReply(a, p.val, made)
          IN  /\ ui[a].pc = "wait"
              /\ TriggerReply[ui[a].trig] = p.ch
              /\ ui' = [ ui EXCEPT ![a].pc = next.pc, ![a].got = p.src,
                                   ![a].val = p.val ]
              /\ dialogs' = dialogs \cup next.dlg
              /\ log' = IF next.pc = "nodialog" THEN Logged("nodialog") ELSE log
              /\ pend' = pend \ { p }
              /\ spawned' = spawned \cup
                    (IF p.then = "respawn"
                     THEN Spawn(walletReqFuncs, cmds[p.src].conn, 0 - p.src)
                     ELSE {})
    /\ UNCHANGED << preGUIErrors, linkVars, wireVars, corrVars, cmds, calls,
                    dropped, ignored, crashed, bootVars, lastNtfn, sens >>

\* ------------------------------------------------------ unlock dialog
\* A goroutine started for the flow of UI goroutine a: the one of its
\* unlock dialog, or the retry of its send.
Started(t, a) ==
    [ trig |-> t, pc |-> "trigger", got |-> 0, val |-> "", of |-> a ]

\* OK in the unlock dialog a send raised: the response handler starts the
\* goroutine that sends on triggers.unlockWallet; d.Run() returns and the
\* dialog is destroyed.
DialogOk ==
    /\ ~crashed
    /\ \E a \in DOMAIN ui :
          /\ ui[a].pc = "dialog"
          /\ ui' = Append([ ui EXCEPT ![a].pc = "unlocking" ],
                          Started("unlockWallet", a))
    /\ UNCHANGED << linkVars, wireVars, corrVars, goVars, histVars, dialogs,
                    preGUIErrors, bootVars, lastNtfn, sens >>

\* A dialog that is still there after OK and can be cancelled then.
DialogCancelAfterOk ==
    /\ ~crashed
    /\ \E a \in DOMAIN ui :
          /\ ui[a].pc \in { "dialog", "unlocking" }
          /\ ui' = [ ui EXCEPT ![a].pc = "cancelled" ]
    /\ UNCHANGED << linkVars, wireVars, corrVars, goVars, histVars, dialogs,
                    preGUIErrors, bootVars, lastNtfn, sens >>

\* Cancel in that dialog: close(success), and the waiting goroutine gives
\* the send up.
DialogCancel ==
    /\ ~crashed
    /\ \E a \in DOMAIN ui :
          /\ ui[a].pc = "dialog"
          /\ ui' = [ ui EXCEPT ![a].pc = "cancelled" ]
    /\ UNCHANGED << linkVars, wireVars, corrVars, goVars, histVars, dialogs,
                    preGUIErrors, bootVars, lastNtfn, sens >>

\* A waiting goroutine that tries the send again whatever it is told.
AfterUnlockAlways(ok) == "retried"

\* "success, ok := <-unlockSuccessful": after true the goroutine started
\* with the unlock dialog tries the send again and returns; after false it
\* waits on, for a dialog that is gone.
AfterUnlock(ok) == IF ok = "true" THEN "retried" ELSE "unlockfailed"

\* "success <- ok": the goroutine of the unlock dialog reports to the one
\* that waits for it, the rendezvous of the two; after false it shows
\* "Wallet decryption failed.".
UnlockReport ==
    /\ ~crashed
    /\ \E u \in DOMAIN ui :
          LET a == ui[u].of
              then == AfterUnlock(ui[u].val)
              told == [ ui EXCEPT ![u].pc = "done", ![a].pc = then ]
          IN  /\ ui[u].pc = "report"
              /\ ui[a].pc = "unlocking"
              /\ ui' = IF then = "retried"
                       THEN Append(told, Started("sendTx", a))
                       ELSE told
              /\ dialogs' = IF ui[u].val = "true" THEN dialogs
                            ELSE dialogs \cup { Dialog("error", "ui", u, "shown") }
    /\ UNCHANGED << linkVars, wireVars, corrVars, goVars, histVars,
                    preGUIErrors, bootVars, lastNtfn, sens >>

\* A trigger sent with "select { case ch <- v: default: }": it is lost when
\* no dispatch loop is there to receive it.
ClickDrops(t) ==
    /\ ~crashed
    /\ Cardinality({ a \in DOMAIN ui : ui[a].of = 0 }) < MaxClicks
    /\ ui' = Append(ui, [ Started(t, 0) EXCEPT
                            !.pc = IF lau = "loop" THEN "trigger" ELSE "done" ])
    /\ UNCHANGED << linkVars, wireVars, corrVars, goVars, histVars, dialogs,
                    preGUIErrors, bootVars, lastNtfn, sens >>

\* ------------------------------------------------------- UI goroutines
\* A button or dialog starts a goroutine that sends on a trigger channel:
\* "go func() { triggers.X <- v; ... }()", "go txSenderAndReplyListener(sendTo)".
\* The handler runs whenever GTK delivers the signal; sens only records what
\* the updaters have set.
Click(t) ==
    /\ ~crashed
    /\ Cardinality({ a \in DOMAIN ui : ui[a].of = 0 }) < MaxClicks
    /\ ui' = Append(ui, Started(t, 0))
    /\ UNCHANGED << linkVars, wireVars, corrVars, goVars, histVars, dialogs,
                    preGUIErrors, bootVars, lastNtfn, sens >>

\* The Send button: "go txSenderAndReplyListener(sendTo)".
ClickSend == Click("sendTx")
\* The New Address button.
ClickNewAddr == Click("newAddr")
\* OK in the new wallet dialog.
ClickNewWallet == Click("newWallet")
\* The "Lock wallet" menu item.
ClickLock == Click("lockWallet")
\* OK in the unlock dialog.
ClickUnlock == Click("unlockWallet")
\* OK in the transaction fee dialog.
ClickSetTxFee == Click("setTxFee")

\* The Send button pressed while no dispatch loop runs: before the first
\* handshake, or between a loss or refusal and the next handshake.
ClickSendDown == lau # "loop" /\ ClickSend

\* ------------------------------------------------------- specifications
\* The reconnect loop and ListenAndUpdate until the dispatch loop runs.
Up == MainReadCA \/ MainSpawn \/ MainRecv \/ MainPush \/ LauDialOk \/ LauSpawn

\* What they do once a connection is refused or lost.
Down == MainSleep \/ MainDone \/ LauDone \/ LauLost

\* The command goroutines and the updater goroutines.
Commands == CmdStart \/ CmdRegister \/ CmdSendOk \/ PendUpdate

\* The daemon answers, the dispatch loop takes the frames.
Answers == ReaderReply \/ LauFrame

\* One connection to a daemon that answers each request at most once, in
\* any order, and a user who sends coins.
Next ==
    \/ Up \/ Commands \/ Answers
    \/ ClickSend \/ LauTrigger \/ PendReply

Spec == Init /\ [][Next]_vars

\* One connection on which writes may fail, and a user who does anything.
NextWrite ==
    \/ Up \/ Commands \/ CmdSendFail
    \/ ClickSend \/ ClickNewAddr \/ ClickNewWallet \/ ClickLock \/ ClickUnlock
    \/ ClickSetTxFee \/ LauTrigger \/ PendReply

SpecWrite == Init /\ [][NextWrite]_vars

\* One connection to a daemon that answers, and a user who sends coins,
\* asks for addresses, unlocks the wallet and answers the unlock dialogs.
NextFlows ==
    \/ Up \/ Commands \/ Answers
    \/ ClickSend \/ ClickNewAddr \/ ClickUnlock \/ LauTrigger \/ PendReply
    \/ DialogOk \/ DialogCancel \/ UnlockReport

SpecFlows == Init /\ [][NextFlows]_vars

\* One connection to a daemon that answers, and a user who creates wallets.
NextWallet ==
    \/ Up \/ Commands \/ Answers
    \/ ClickNewWallet \/ LauTrigger \/ PendReply

SpecWallet == Init /\ [][NextWallet]_vars

\* Connections that get lost while a user sends coins; what the updater
\* goroutines do is left out.
NextLeak ==
    \/ Up \/ Down \/ CmdStart \/ CmdRegister \/ CmdSendOk \/ Answers
    \/ ReaderError \/ ClickSend \/ LauTrigger \/ PendReply

SpecLeak == Init /\ [][NextLeak]_vars

\* The start of main() over any version file, up to StartMainApplication.
NextBoot == MainBoot \/ TutorialClosed \/ MainReadCA \/ MainCAFail

SpecBoot == InitBoot /\ [][NextBoot]_vars

\* One connection to a daemon that also sends frames nobody asked for.
NextFrames ==
    \/ Up \/ Commands \/ Answers \/ ReaderForged \/ ReaderJunk

SpecFrames == Init /\ [][NextFrames]_vars

\* One connection to a daemon that sends notifications.
NextNtfn ==
    \/ Up \/ Commands \/ ReaderNtfn \/ LauFrame

SpecNtfn == Init /\ [][NextNtfn]_vars

\* Connections that are refused or get lost, writes that fail, requests
\* that cannot be built, and a CA file that may be unreadable.
NextReconnect ==
    \/ Up \/ Down \/ Commands \/ Answers
    \/ LauDialRefused \/ ReaderError \/ CmdSendFail \/ CmdBuildFail \/ MainCAFail

SpecReconnect == Init /\ [][NextReconnect]_vars

\* The reconnect loop alone, with frames that are dropped, under the
\* scheduling the Go runtime gives: a goroutine that can take its next
\* step does take it, a timer fires, updateConnectionState receives what is
\* sent to it, and websocket.Dial returns. Nothing says that a connection
\* is ever lost, or that a frame ever arrives.
NextLoop ==
    \/ Up \/ Down \/ LauDialRefused \/ ReaderError \/ ReaderJunk \/ LauFrame

Scheduling ==
    /\ WF_vars(MainReadCA) /\ WF_vars(MainSpawn) /\ WF_vars(MainRecv)
    /\ WF_vars(MainPush) /\ WF_vars(MainSleep) /\ WF_vars(MainDone)
    /\ WF_vars(LauDialOk \/ LauDialRefused) /\ WF_vars(LauSpawn)
    /\ WF_vars(LauFrame) /\ WF_vars(LauLost) /\ WF_vars(LauDone)

SpecLoop == Init /\ [][NextLoop]_vars /\ Scheduling

\* Connections that are refused or get lost, and a user who sends coins
\* only while there is no connection.
NextDown ==
    \/ Up \/ Down \/ CmdStart \/ CmdRegister \/ CmdSendOk
    \/ LauDialRefused \/ ReaderError \/ ClickSendDown \/ LauTrigger

SpecDown == Init /\ [][NextDown]_vars

\* ---------------------------------------------------------------- claims
\* Frame number k has been taken from replies by the dispatch loop.
Dispatched(k) == k > 0 /\ k <= nframes /\ \A j \in DOMAIN replies : replies[j].k # k

\* C1: whatever the order in which the replies arrive, the callback of each
\* command is invoked exactly once, by the reply that carries the id the
\* command sent: no callback is invoked by a frame with another id, none is
\* invoked twice, and a command whose reply was dispatched has been invoked
\* by that reply.
C1_ExactlyOnceMatched ==
    /\ \A c \in calls : c.id2 = 2 * cmds[c.slot].n
    /\ \A c, d \in calls : c.slot = d.slot => c = d
    /\ \A i \in DOMAIN cmds :
          Dispatched(cmds[i].rk) =>
              \E c \in calls : c.slot = i /\ c.k = cmds[i].rk

\* Two commands in flight at once, answered in the reverse of their order.
C1_Witness ==
    \E c, d \in calls :
        /\ c.slot < d.slot /\ c.k > d.k
        /\ cmds[c.slot].n < cmds[d.slot].n

\* C2: whatever frames arrive, duplicates and ids never issued included,
\* no frame is handed to more than one callback and no registered callback
\* is invoked more than once.
C2_NoDoubleDispatch ==
    /\ \A c, d \in calls : c.k = d.k => c = d
    /\ \A c, d \in calls : c.slot = d.slot => c = d

\* A reply was dispatched to its callback and a later frame with the same
\* id found no handler.
C2_Witness ==
    \E c \in calls, d \in dropped : d.id2 = c.id2 /\ d.k > c.k

\* C3: the ids handed out are 0, 1, 2, ... in increasing order, one command
\* per id, and a command about to register finds no registration under
\* its id.
C3_IdsUnique ==
    /\ { cmds[i].n : i \in DOMAIN cmds } \ { NoId } = 0 .. (jsonid - 1)
    /\ \A i, j \in DOMAIN cmds :
          (i < j /\ cmds[i].n # NoId /\ cmds[j].n # NoId) => cmds[i].n < cmds[j].n
    /\ \A i \in DOMAIN cmds :
          cmds[i].pc = "register" => cmds[i].n \notin DOMAIN replyHandlers

\* A command is about to register its handler while the registration of an
\* earlier command is still in the map.
C3_Witness ==
    \E i, j \in DOMAIN cmds :
        /\ cmds[j].pc = "register"
        /\ cmds[i].n \in DOMAIN replyHandlers
        /\ cmds[i].n < cmds[j].n

\* C4: when a connection attempt starts, each earlier attempt that reported
\* ErrConnectionRefused or ErrConnectionLost has been followed by a false
\* on btcwalletConnected.
C4_FalseBeforeRetry ==
    \A i \in DOMAIN reports :
        (reports[i].r # "nil" /\ reports[i].conn < conn) =>
            \E j \in DOMAIN connPushes :
                connPushes[j] = [ v |-> FALSE, conn |-> reports[i].conn ]

\* The second attempt has started after the first connection was lost.
C4_Witness ==
    /\ conn = 2 /\ lau = "dial"
    /\ \E i \in DOMAIN reports : reports[i] = [ r |-> "lost", conn |-> 1 ]

\* The request functions of connection c have been started, each in its
\* goroutine, and every one of the goroutines has run to its end.
InitialRequestsCompleted(c) ==
    /\ \E i \in DOMAIN cmds : cmds[i].conn = c /\ cmds[i].by = 0
    /\ \A g \in spawned : ~(g.conn = c /\ g.by = 0)
    /\ \A i \in DOMAIN cmds :
          (cmds[i].conn = c /\ cmds[i].by = 0) => cmds[i].pc \in { "done", "failed" }

\* C5 as stated: true is on btcwalletConnected only after the handshake of
\* that connection succeeded and the initial requests issued on it
\* (walletReqFuncs and btcdReqFuncs) have completed.
C5_TrueAfterInitialRequests ==
    \A j \in DOMAIN connPushes :
        connPushes[j].v =>
            /\ \E i \in DOMAIN reports :
                  reports[i] = [ r |-> "nil", conn |-> connPushes[j].conn ]
            /\ InitialRequestsCompleted(connPushes[j].conn)

\* C5 as amended: true is pushed on btcwalletConnected only after the
\* websocket handshake of the current attempt has succeeded and been
\* reported, and once per handshake.
C5_TrueAfterHandshake ==
    /\ \A j \in DOMAIN connPushes :
          connPushes[j].v =>
              \E i \in DOMAIN reports :
                  reports[i] = [ r |-> "nil", conn |-> connPushes[j].conn ]
    /\ \A j, k \in DOMAIN connPushes :
          (connPushes[j].v /\ connPushes[k].v /\ j # k) =>
              connPushes[j].conn # connPushes[k].conn

\* true has been pushed for the second connection, whose request functions
\* have not been started yet.
C5_Witness ==
    /\ conn = 2 /\ lau = "spawn"
    /\ \E j \in DOMAIN connPushes : connPushes[j] = [ v |-> TRUE, conn |-> 2 ]

\* The failure of command i has reached, or is waiting for, its consumer.
FailureDelivered(i) ==
    \/ \E p \in pend : p.who = "cmd" /\ p.src = i
    \/ \E a \in DOMAIN ui : ui[a].got = i /\ ui[a].val = "writeerr"

\* C6: when the write of a command that registered a handler has failed,
\* its registration is gone from replyHandlers and, for a command a UI
\* goroutine started, the failure has been sent to its consumer.
C6_WriteFailureCleansUp ==
    \A i \in DOMAIN cmds :
        (cmds[i].pc = "failed" /\ cmds[i].n # NoId) =>
            /\ cmds[i].n \notin DOMAIN replyHandlers
            /\ (cmds[i].by > 0 => FailureDelivered(i))

\* C7: what a UI goroutine receives on its reply channel is the outcome of
\* the command that it started itself.
C7_ResultToIssuer ==
    \A a \in DOMAIN ui : ui[a].got # 0 => cmds[ui[a].got].by = a

ErrorValues == { "rpc-13", "rpcerr", "false" }

\* C8: when a callback was invoked with an error reply, an error value is
\* being sent to, or was received by, a consumer.
C8_ErrorDelivered ==
    \A c \in calls :
        c.err # 0 =>
            \/ \E p \in pend :
                  p.who = "cb" /\ p.src = c.slot /\ p.val \in ErrorValues
            \/ \E a \in DOMAIN ui :
                  ui[a].got = c.slot /\ ui[a].val \in ErrorValues

\* The dispatch loop takes the frame at the head of replies.
TakesHead == lau = "loop" /\ replies # << >> /\ replies' = Tail(replies)

\* C9: when the dispatch loop takes a notification whose method is not one
\* handleBtcwalletNtfn knows, a line is logged, no send on an update channel
\* starts, the process does not crash and the loop goes on.
C9_UnknownNtfnLogged ==
    [][ (TakesHead /\ Head(replies).t = "str" /\ Head(replies).m = "other") =>
            /\ log'["unhandled"] = log["unhandled"] + 1
            /\ pend' = pend
            /\ ~crashed'
            /\ lau' = "loop" ]_vars

\* An unknown notification was logged and the frame after it was handled.
C9_Witness ==
    /\ log["unhandled"] = 1
    /\ \E p \in pend : p.who = "ntfn" /\ p.src = 2

\* No registration is under the numeric id of frame f.
NoRegistration(f) ==
    f.id2 < 0 \/ f.id2 % 2 = 1 \/ (f.id2 \div 2) \notin DOMAIN replyHandlers

\* C10 as stated: a reply whose numeric id has no registration is logged
\* and dropped; no callback runs, the map is unchanged, nothing crashes.
C10_LoggedAndDropped ==
    [][ (TakesHead /\ Head(replies).t = "num" /\ NoRegistration(Head(replies))) =>
            /\ log' # log
            /\ calls' = calls /\ pend' = pend
            /\ replyHandlers' = replyHandlers
            /\ ~crashed' ]_vars

\* C10 as amended: a reply whose id, converted to uint64, has no
\* registration is dropped without a log line; no callback runs, the map
\* is unchanged, nothing crashes.
C10_DroppedSilently ==
    [][ ( /\ TakesHead /\ Head(replies).t = "num"
          /\ Uint64Of(Head(replies).id2) \cap DOMAIN replyHandlers = {} ) =>
            /\ log' = log
            /\ calls' = calls /\ pend' = pend
            /\ replyHandlers' = replyHandlers
            /\ ~crashed' ]_vars

\* A frame found no handler while another command's registration stayed.
C10_Witness ==
    /\ dropped # {}
    /\ DOMAIN replyHandlers # {}
    /\ calls = {}

\* C11: when the dispatch loop takes a frame that is not JSON, or whose id
\* is null or missing, it logs one line and drops the frame: no callback
\* and no notification handler starts, replyHandlers is unchanged, and the
\* loop stays in its select on the same connection.
C11_JunkLoggedAndDropped ==
    [][ (TakesHead /\ Head(replies).t \in { "bad", "null" }) =>
            /\ log' = Logged(IF Head(replies).t = "bad"
                             THEN "unmarshal" ELSE "invalidid")
            /\ calls' = calls /\ dropped' = dropped /\ pend' = pend
            /\ replyHandlers' = replyHandlers
            /\ lau' = "loop" /\ conn' = conn /\ reader' = reader
            /\ ~crashed' ]_vars

\* A frame without an id was logged and the reply after it was dispatched
\* to its callback.
C11_Witness ==
    /\ log["invalidid"] = 1
    /\ \E c \in calls : c.k = 2

\* C12: the reconnect loop does not end: after each ErrConnectionRefused
\* and each ErrConnectionLost a new connection attempt starts (as long as
\* the bound on attempts allows one), and once the handshake of a later
\* attempt succeeds, true is pushed on btcwalletConnected after the false
\* pushed for the failure.
C12_ReconnectsForever ==
    /\ \A c \in 1 .. (MaxConns - 1) :
          (conn = c /\ lau \in { "refused", "lost" }) ~> (conn = c + 1)
    /\ \A c \in 2 .. MaxConns :
          (conn = c /\ lau = "nil") ~>
              \E i, j \in DOMAIN connPushes :
                  /\ i < j
                  /\ connPushes[i] = [ v |-> FALSE, conn |-> c - 1 ]
                  /\ connPushes[j] = [ v |-> TRUE, conn |-> c ]

\* The first connection was lost, the second attempt succeeded and true
\* was pushed for it.
C12_Witness ==
    /\ \E i \in DOMAIN reports : reports[i] = [ r |-> "lost", conn |-> 1 ]
    /\ \E j \in DOMAIN connPushes : connPushes[j] = [ v |-> TRUE, conn |-> 2 ]

\* C13: when the CA file cannot be read the error is handed to the pre-GUI
\* error dialog once, StartMainApplication goes no further, and no
\* connection attempt is ever made.
C13_BadCAFileIsFatal ==
    preGUIErrors > 0 =>
        /\ preGUIErrors = 1
        /\ main = "fatal"
        /\ conn = 0 /\ lau = "none" /\ reports = << >> /\ connPushes = << >>

\* The CA file could not be read.
C13_Witness == main = "fatal" /\ preGUIErrors = 1

\* C17: when the dispatch loop takes an accountbalance,
\* accountbalanceunconfirmed or newwalletlockstate notification for an
\* account other than the default one, nothing but the frame's removal
\* happens: no send on an update channel starts, no dialog, no log line,
\* no crash.
C17_OtherAccountIgnored ==
    [][ ( /\ TakesHead /\ Head(replies).t = "str"
          /\ OtherAccount(Head(replies).m, Head(replies).res) ) =>
            /\ pend' = pend /\ ui' = ui /\ dialogs' = dialogs
            /\ log' = log /\ calls' = calls
            /\ replyHandlers' = replyHandlers
            /\ ~crashed' ]_vars

\* Two notifications for another account have been taken and nothing is
\* being sent to the UI.
C17_Witness == ignored = 2 /\ pend = {} /\ replies = << >>

\* C20: while the process is alive the dispatch loop can always take the
\* frame at the head of replies, however many handlers are still blocked
\* in their channel sends.
C20_LoopNeverBlocked ==
    (~crashed /\ lau = "loop" /\ replies # << >>) => ENABLED LauFrame

\* The handler of the first notification is still blocked in its send and
\* the loop has dispatched the second one, whose handler is blocked too.
C20_Witness ==
    /\ \E p \in pend : p.who = "ntfn" /\ p.src = 1
    /\ \E p \in pend : p.who = "ntfn" /\ p.src = 2

\* The dialogs asked for by the callback of command i.
DialogsOf(i) == { d \in dialogs : d.who = "cb" /\ d.src = i }

\* C16: a listaccounts reply without error whose result is null, or a map
\* without the default account, makes the client ask for the new wallet
\* dialog exactly once (it is on the screen whenever GTK can make it) and
\* sends nothing to the UI; a reply with the default account, or an error
\* reply, opens no dialog.
C16_CreateWalletFlow ==
    \A c \in calls :
        cmds[c.slot].kind = "listaccounts" =>
            /\ \A p \in pend : ~(p.who = "cb" /\ p.src = c.slot)
            /\ IF c.err = 0 /\ c.res \in { "null", "mapother" }
               THEN /\ \A d \in DialogsOf(c.slot) : d.kind = "newwallet"
                    /\ \E shown \in BOOLEAN :
                          { d.shown : d \in DialogsOf(c.slot) } = { shown }
               ELSE DialogsOf(c.slot) = {}

\* The reply to listaccounts had no default account and the new wallet
\* dialog is on the screen.
C16_Witness ==
    \E c \in calls :
        /\ cmds[c.slot].kind = "listaccounts" /\ c.res = "mapother"
        /\ \E d \in DialogsOf(c.slot) : d.shown

\* Command j is a sendmany that was sent after the sendmany i, and the
\* reply to j has been dispatched while none has been for i.
Overtaken(i, j) ==
    /\ cmds[i].kind = "sendmany" /\ cmds[j].kind = "sendmany"
    /\ cmds[i].n < cmds[j].n
    /\ cmds[i].sent /\ ~Dispatched(cmds[i].rk)
    /\ Dispatched(cmds[j].rk)

\* C18: with two sendmany requests in flight, the reply to the later one
\* is handed to its callback when it is dispatched, whether or not the
\* earlier one has been answered, and the earlier request stays registered
\* with its callback not invoked.
C18_LaterReplyFirst ==
    \A i, j \in DOMAIN cmds :
        Overtaken(i, j) =>
            /\ \E c \in calls : c.slot = j /\ c.k = cmds[j].rk
            /\ \A c \in calls : c.slot # i
            /\ cmds[i].n \in DOMAIN replyHandlers
            /\ replyHandlers[cmds[i].n] = i

\* The later of two sendmany requests has been answered first.
C18_Witness == \E i, j \in DOMAIN cmds : Overtaken(i, j)

\* The send goroutines started to try again the send of UI goroutine a.
RetriesOf(a) ==
    { r \in DOMAIN ui : ui[r].trig = "sendTx" /\ ui[r].of = a }

\* The unlock request of the dialog that UI goroutine a raised was answered
\* without an error.
OwnUnlockSucceeded(a) ==
    \E u \in DOMAIN ui, c \in calls :
        /\ ui[u].trig = "unlockWallet" /\ ui[u].of = a
        /\ cmds[c.slot].by = u /\ cmds[c.slot].kind = "walletpassphrase"
        /\ c.err = 0

\* C14: a send is tried again only by a flow whose own sendmany reply was
\* error -13 and whose own unlock request succeeded, and at most once.
C14_RetryAfterOwnUnlock ==
    \A a \in DOMAIN ui :
        RetriesOf(a) # {} =>
            /\ ui[a].trig = "sendTx" /\ ui[a].val = "rpc-13"
            /\ OwnUnlockSucceeded(a)
            /\ Cardinality(RetriesOf(a)) = 1

\* C15: every getnewaddress callback called with the keypool error has an
\* unlock dialog raised for it.
C15_KeypoolErrorPrompts ==
    \A c \in calls :
        (cmds[c.slot].kind = "getnewaddress" /\ c.err = -12) =>
            \E d \in dialogs :
                /\ d.kind = "unlock"
                /\ \/ d.who = "cb" /\ d.src = c.slot
                   \/ d.who = "ui" /\ d.src = cmds[c.slot].by

\* The callback registered under the id of the frame at the head.
Registrant(f) == replyHandlers[f.id2 \div 2]

\* The frame at the head is a reply to a registered request.
Matched(f) ==
    /\ f.t = "num" /\ f.id2 >= 0 /\ f.id2 % 2 = 0
    /\ (f.id2 \div 2) \in DOMAIN replyHandlers

\* C19: when the loop takes a reply to a registered request, the callback is
\* called with exactly the frame's result and error, and a getnewaddress
\* callback given a string and no error sends that string on
\* triggerReplies.newAddr.
C19_CallbackGetsResultAndError ==
    [][ (TakesHead /\ Matched(Head(replies))) =>
          LET f == Head(replies)
              slot == Registrant(f)
          IN  /\ [ slot |-> slot, k |-> f.k, id2 |-> f.id2,
                   res |-> f.res, err |-> f.err ] \in calls' \ calls
              /\ (cmds[slot].kind = "getnewaddress" /\ f.err = 0
                    /\ f.res \in Strings) =>
                   \E p \in pend' \ pend :
                       /\ p.ch = "newAddr" /\ p.val = f.res /\ p.src = slot ]_vars

C19_Witness ==
    \E c \in calls, p \in pend :
        /\ cmds[c.slot].kind = "getnewaddress" /\ c.err = 0
        /\ c.res \in Addresses
        /\ p.ch = "newAddr" /\ p.src = c.slot /\ p.val = c.res
        /\ \E e \in calls : e.err # 0

\* The callback of command i has been called.
Called(i) == \E c \in calls : c.slot = i

\* Command i is registered under its id.
RegisteredAs(i) ==
    cmds[i].n \in DOMAIN replyHandlers /\ replyHandlers[cmds[i].n] = i

C22_DisabledWhileDisconnected ==
    (connPushes # << >> /\ ~connPushes[Len(connPushes)].v)
        => sens \cap Widgets = {}

\* Request i is on the wire and no frame with its id has been received.
Unanswered(i) == cmds[i].sent /\ cmds[i].n >= 0 /\ cmds[i].rk = 0

StartedFor(a) == { g \in spawned : g.by = a }
RunFor(a) == { i \in DOMAIN cmds : cmds[i].by = a }

\* C24: a trigger is taken only by the dispatch loop of a ListenAndUpdate,
\* and a trigger that was taken has started exactly one command, the one of
\* its channel, on a connection that was made; that command writes its
\* request once, unless it fails.
C24_OneCommandPerTrigger ==
    \A a \in DOMAIN ui :
        IF ui[a].pc = "trigger"
        THEN StartedFor(a) = {} /\ RunFor(a) = {}
        ELSE /\ conn >= 1
             /\ Cardinality(StartedFor(a)) + Cardinality(RunFor(a)) = 1
             /\ \A g \in StartedFor(a) :
                    g.kind = TriggerCmd[ui[a].trig] /\ g.conn \in 1 .. conn
             /\ \A i \in RunFor(a) :
                    /\ cmds[i].kind = TriggerCmd[ui[a].trig]
                    /\ cmds[i].conn \in 1 .. conn
                    /\ cmds[i].sent <=> cmds[i].pc = "done"

C24_Witness ==
    \E a, b \in DOMAIN ui :
        /\ ui[a].trig # ui[b].trig
        /\ \E i \in RunFor(a) : cmds[i].sent
        /\ \E j \in RunFor(b) : cmds[j].pc = "failed"

\* A version as one number: the order of the numbers is the order of
\* (major, minor, patch) read from the left.
Rank(v) == (v.major * (MaxField + 1) + v.minor) * (MaxField + 1) + v.patch

\* The tutorial dialog has been asked for.
TutorialAsked == \E d \in dialogs : d.kind = "tutorial"

\* C25: once main() has decided, the tutorial has been asked for if and
\* only if the version file could not be read or the application is newer
\* than the version recorded there; otherwise StartMainApplication was
\* started with no dialog before it.
C25_TutorialIffNewer ==
    main # "boot" =>
        IF prevRun.st # "line" \/ Rank(appVer) > Rank(ParseVersion(prevRun.nums))
        THEN TutorialAsked
        ELSE dialogs = {} /\ main \in { "start", "spawn", "fatal" }

C25_Witness ==
    /\ main = "start" /\ dialogs = {}
    /\ prevRun.st = "line" /\ Len(prevRun.nums) = 3
    /\ prevRun.nums[1] = appVer.major
    /\ prevRun.nums[2] > appVer.minor
    /\ prevRun.nums[3] < appVer.patch

\* C26: a command that expects a reply is registered under its id when it
\* comes to write its request, and no reply finds its handler missing.
C26_RegisteredBeforeSend ==
    /\ \A i \in DOMAIN cmds :
          (cmds[i].kind \notin NoHandler /\ cmds[i].pc = "send") => RegisteredAs(i)
    /\ \A i \in DOMAIN cmds :
          (cmds[i].kind \notin NoHandler /\ cmds[i].sent)
              => (RegisteredAs(i) \/ Called(i))
    /\ dropped = {}

C26_Witness ==
    \E i, j \in DOMAIN cmds :
        /\ cmds[i].sent /\ Called(i)
        /\ cmds[j].pc = "send" /\ cmds[j].kind \notin NoHandler

\* C27: the updater goroutines are started by the first ListenAndUpdate and
\* by no later one.
C27_UpdatersStartedOnce ==
    /\ updaters <= 1
    /\ (conn >= 1 /\ lau # "dial") => updaters = 1

C27_Witness == conn = 2 /\ lau = "loop" /\ updaters = 1

\* The goroutines the callback of command i has started, and those of them
\* that have run.
RespawnedBy(i) == { g \in spawned : g.by = 0 - i }
RerunBy(i) == { j \in DOMAIN cmds : cmds[j].by = 0 - i }

\* The callback of createencryptedwallet command i has delivered val, once.
DeliveredOnce(i, val) ==
    /\ Cardinality({ a \in DOMAIN ui : ui[a].got = i }) = 1
    /\ \A a \in DOMAIN ui : ui[a].got = i => ui[a].val = val
    /\ \A p \in pend : ~(p.who = "cb" /\ p.src = i)

\* The callback of command i is still in its send of val.
Delivering(i, val) ==
    /\ \A a \in DOMAIN ui : ui[a].got # i
    /\ \E p \in pend : p.who = "cb" /\ p.src = i /\ p.val = val
    /\ Cardinality({ p \in pend : p.who = "cb" /\ p.src = i }) = 1

\* Every function of walletReqFuncs has been started once by the callback
\* of command i, on the connection of i.
ReissuedOnce(i) ==
    \A k \in Range(walletReqFuncs) :
        /\ Cardinality({ g \in RespawnedBy(i) : g.kind = k })
              + Cardinality({ j \in RerunBy(i) : cmds[j].kind = k }) = 1
        /\ \A g \in RespawnedBy(i) : g.conn = cmds[i].conn
        /\ \A j \in RerunBy(i) : cmds[j].conn = cmds[i].conn

\* Command j has an id that no other command has.
FreshId(j) ==
    cmds[j].n >= 0 /\ \A x \in DOMAIN cmds : cmds[x].n = cmds[j].n => x = j

\* What the callback of createencryptedwallet has done, but for the ids.
WalletCallbackDone(c) ==
    IF c.err = 0
    THEN \/ Delivering(c.slot, "nil")
            /\ RespawnedBy(c.slot) = {} /\ RerunBy(c.slot) = {}
         \/ DeliveredOnce(c.slot, "nil") /\ ReissuedOnce(c.slot)
    ELSE /\ Delivering(c.slot, ErrVal(c.err)) \/ DeliveredOnce(c.slot, ErrVal(c.err))
         /\ RespawnedBy(c.slot) = {} /\ RerunBy(c.slot) = {}

\* C28, as claimed: after a createencryptedwallet reply the callback
\* delivers nil or the error once, after nil it starts every function of
\* walletReqFuncs once on the same connection, and each of them takes a
\* fresh id.
C28_ReissuedWithFreshIds ==
    \A c \in calls :
        cmds[c.slot].kind = "createencryptedwallet" =>
            /\ WalletCallbackDone(c)
            /\ \A j \in RerunBy(c.slot) : FreshId(j)

\* C28, amended: the same, where the functions that register a handler
\* take a fresh id and cmdGetBalances writes its request without one.
C28_ReissuedOnce ==
    \A c \in calls :
        cmds[c.slot].kind = "createencryptedwallet" =>
            /\ WalletCallbackDone(c)
            /\ \A j \in RerunBy(c.slot) :
                  IF cmds[j].kind \in NoHandler THEN cmds[j].n = NoId
                  ELSE FreshId(j)

C28_Witness ==
    \E c \in calls, j \in DOMAIN cmds :
        /\ cmds[c.slot].kind = "createencryptedwallet" /\ c.err = 0
        /\ DeliveredOnce(c.slot, "nil")
        /\ cmds[j].by = 0 - c.slot /\ cmds[j].kind \notin NoHandler
        /\ cmds[j].sent

\* The value the callback of cmdGetBlockCount sends for (res, err).
HeightFor(c) == IF c.err = 0 /\ c.res = "number" THEN "height" ELSE "0"

\* C29: a cmdGetBlockCount sends on updateChans.bcHeight from one place at
\* most: its callback, called once at most, sends the height of a numeric
\* reply and 0 otherwise; the command itself sends 0 when it cannot build
\* or write its request, after its registration is gone.
C29_OneHeightPerCommand ==
    \A i \in DOMAIN cmds :
        cmds[i].kind = "getblockcount" =>
            /\ Cardinality({ c \in calls : c.slot = i }) <= 1
            /\ Cardinality({ p \in pend : p.src = i /\ p.who \in { "cb", "cmd" } }) <= 1
            /\ ~(Called(i) /\ cmds[i].pc \in { "failed", "nobuild" })
            /\ \A p \in pend :
                  /\ (p.who = "cb" /\ p.src = i) =>
                        /\ p.ch = "bcHeight"
                        /\ \E c \in calls : c.slot = i /\ p.val = HeightFor(c)
                  /\ (p.who = "cmd" /\ p.src = i) =>
                        /\ p.ch = "bcHeight" /\ p.val = "0"
                        /\ cmds[i].pc \in { "failed", "nobuild" }
                        /\ ~RegisteredAs(i)

C29_Witness ==
    \E i, j \in DOMAIN cmds, c \in calls :
        /\ cmds[i].kind = "getblockcount" /\ cmds[i].pc = "failed"
        /\ [ ch |-> "bcHeight", val |-> "0", then |-> "", who |-> "cmd",
             src |-> i ] \in pend
        /\ cmds[j].kind = "getblockcount" /\ c.slot = j /\ c.res = "number"
        /\ [ ch |-> "bcHeight", val |-> "height", then |-> "", who |-> "cb",
             src |-> j ] \in pend

\* The goroutine of the unlock dialog of send a has reported val.
Reported(a, val) ==
    \E u \in DOMAIN ui :
        /\ ui[u].of = a /\ ui[u].trig = "unlockWallet"
        /\ ui[u].pc = "done" /\ ui[u].val = val

\* C30: a send whose unlock dialog was cancelled has not been tried again;
\* a send whose waiting goroutine was told false has not been tried again
\* either, and that goroutine waits on.
C30_NoRetryWithoutUnlock ==
    \A a \in DOMAIN ui :
        /\ ui[a].pc = "cancelled" => RetriesOf(a) = {}
        /\ Reported(a, "false") =>
              RetriesOf(a) = {} /\ ui[a].pc = "unlockfailed"

C30_Witness ==
    \E a, u \in DOMAIN ui :
        /\ ui[a].pc = "unlockfailed"
        /\ ui[u].of = a /\ ui[u].val = "false" /\ ui[u].pc = "done"

\* C31 (as stated): what the goroutine of a send's unlock dialog has received
\* on triggerReplies.unlockSuccessful is the outcome of the walletpassphrase
\* request that it issued itself, true exactly when that reply had no error.
C31_OwnOutcomeForwarded ==
    \A u \in DOMAIN ui :
        (ui[u].trig = "unlockWallet" /\ ui[u].of # 0 /\ ui[u].got # 0) =>
            /\ cmds[ui[u].got].by = u
            /\ \E c \in calls :
                  /\ c.slot = ui[u].got
                  /\ ui[u].val = IF c.err = 0 THEN "true" ELSE "false"

\* C32: the reconnect loop starts a ListenAndUpdate only when the one before
\* it has returned and its reader goroutine is gone, so that no two dispatch
\* loops and no two live connections exist together.
C32_OneListenAndUpdate ==
    [][ conn' # conn =>
            /\ lau \in { "none", "returned", "done" }
            /\ reader # "open" ]_vars

C32_Witness ==
    /\ conn = 2 /\ lau = "loop" /\ reader = "open"
    /\ \E k \in DOMAIN reports : reports[k].conn = 1 /\ reports[k].r = "lost"

\* C33: no two values pushed one after the other on
\* updateChans.btcwalletConnected are both true.
C33_NoTwoTruesInARow ==
    \A k \in DOMAIN connPushes :
        (k > 1 /\ connPushes[k].v) => ~connPushes[k - 1].v

C33_Witness ==
    /\ Len(connPushes) = 3
    /\ connPushes[1].v /\ ~connPushes[2].v /\ connPushes[3].v

\* C34: the frames in replies are in the order of their arrival, the loop
\* takes the oldest, nothing else removes a frame, and the loop goes to
\* report ErrConnectionLost only when every frame received was taken.
C34_DrainedBeforeLost ==
    [][ /\ \/ replies' = replies
           \/ replies # << >> /\ replies' = Tail(replies) /\ lau = "loop"
           \/ \E k \in 1..MaxFrames :
                 /\ Len(replies') = Len(replies) + 1
                 /\ SubSeq(replies', 1, Len(replies)) = replies
                 /\ replies'[Len(replies')].k = k
                 /\ \A j \in DOMAIN replies : replies[j].k < k
        /\ (lau' = "lost" /\ lau # "lost") =>
              /\ replies = << >>
              /\ \A k \in 1..nframes : Dispatched(k) ]_vars

C34_Witness ==
    /\ lau = "lost" /\ reader = "closed"
    /\ nframes = MaxFrames /\ Cardinality(calls) = MaxFrames

\* C35: a UI goroutine starts blocked in its send on a trigger channel and
\* stays blocked until a dispatch loop runs and receives what it sends; the
\* command is then started on the connection of that loop.
C35_TriggerWaitsForLoop ==
    [][ \A a \in DOMAIN ui' :
            (a \notin DOMAIN ui \/ ui[a].pc = "trigger") =>
                \/ ui'[a].pc = "trigger"
                \/ /\ a \in DOMAIN ui
                   /\ lau = "loop"
                   /\ [ kind |-> TriggerCmd[ui[a].trig], conn |-> conn,
                        by |-> a ] \in spawned' ]_vars

C35_Witness ==
    \E a \in DOMAIN ui, i \in DOMAIN cmds :
        /\ reports # << >> /\ reports[1].r = "refused"
        /\ cmds[i].by = a /\ cmds[i].conn = 2 /\ cmds[i].kind = "sendmany"

\* C36 (as stated): the updater of balance, and the updater of lockState,
\* receives the values of the notifications in the order in which the
\* notifications arrived: none is still to be delivered when the value of a
\* later one has been received.
C36_NtfnsDeliveredInOrder ==
    \A p \in pend :
        (p.who = "ntfn" /\ p.ch \in { "balance", "lockState" }) =>
            lastNtfn[p.ch] < p.src

\* C37 (as stated): whatever the payload of a notification, taking it does
\* not crash the process, and a payload that has not the shape its method
\* is read with starts no send on an update channel.
C37_NtfnNeverCrashes ==
    [][ (TakesHead /\ Head(replies).t = "str") =>
            /\ ~crashed'
            /\ Head(replies).res = "mapbad" => pend' = pend ]_vars

====
